---- MODULE Spec2Model ----
(***************************************************************************)
(* Model of experiments/task.py: the bandit Task, its trial construction   *)
(* (setup), its iteration protocol (__iter__, __next__, block) and the     *)
(* choice processing and recording (process).                              *)
(*                                                                         *)
(* Probabilities (rwd, rnd) are modelled in hundredths: 50 stands for 0.5. *)
(* numpy stores booleans written into float fields as 1.0 / 0.0; record    *)
(* fields are therefore integers here.                                     *)
(***************************************************************************)
EXTENDS Integers, Sequences, FiniteSets, TLC

VARIABLES parameters,   \* self.parameters: the session description loaded from the task file
          trials,       \* self.trials : 0..n-1 -> trial
          records,      \* self.records: 0..n-1 -> record
          index,        \* self.index
          index_start,  \* self.index_start
          index_stop,   \* self.index_stop
          last,         \* the last call made on the Task and its outcome
          yielded,      \* trials returned by __next__ since the iteration began
          scope,        \* what started the iteration in progress
          prevPass      \* observer: trials of the previous complete full pass

vars == <<parameters, trials, records, index, index_start, index_stop, last, yielded,
          scope, prevPass>>

\* Python's None in the cursor fields; cursor values are always >= -1.
None == -2

\* Every per-trial array has 4 items (cues A..D, positions 1..4).
NSlots == 4

Slots == 0 .. NSlots - 1

\* A JSON list read as a 0-based array.
Vec(t) == [i \in 0 .. Len(t) - 1 |-> t[i + 1]]

\* Largest position index tried as a choice; NSlots and above are out of range.
MaxChoice == 4

\* The reaction times tried: the default, RT=0.0.
RTs == {0}

\* The pre-drawn uniform values tried for rnd (hundredths).
RndValues == {0, 50}

\* A task file: session "A", "B" with nA and nB trials. Block "A" has no
\* n_cue entry; block "B" overrides it.
TaskFile(nA, nB) ==
    [session |-> <<"A", "B">>,
     A |-> [n_trial |-> nA,
            cue |-> <<1, 1, 1, 0>>,
            pos |-> <<0, 1, 1, 0>>,
            rwd |-> <<50, 50, 0, 100>>],
     B |-> [n_trial |-> nB,
            cue |-> <<0, 0, 0, 1>>,
            pos |-> <<1, 0, 0, 0>>,
            rwd |-> <<100, 50, 50, 25>>,
            n_cue |-> 1]]

\* blocks = [_[name] for name in _["session"]]
sessionBlocks ==
    [b \in 1 .. Len(parameters.session) |-> parameters[parameters.session[b]]]

NBlocks == Len(sessionBlocks)

RECURSIVE SumTrials(_)
SumTrials(b) == IF b = 0 THEN 0 ELSE SumTrials(b - 1) + sessionBlocks[b].n_trial

\* self.blocks: the (start, stop) range of each block, 0-based block index.
\* setup assigns it anew on each run, always to this value, since
\* self.parameters never changes.
blocks == [k \in 0 .. NBlocks - 1 |-> <<SumTrials(k), SumTrials(k + 1)>>]

\* n, and len(self) == len(self.trials)
NTrials == SumTrials(NBlocks)

TrialIdx == 0 .. NTrials - 1

\* The block (1-based position in the session) that owns trial i.
BlockOf(i) == CHOOSE b \in 1 .. NBlocks : blocks[b - 1][1] <= i /\ i < blocks[b - 1][2]

\* block.get("n_cue", 2)
NCues(block) == IF "n_cue" \in DOMAIN block THEN block.n_cue ELSE 2

\* Samples drawn with replacement: the indices may repeat.
SamplesWithReplacement(w, n) ==
    {s \in [1 .. n -> DOMAIN Vec(w)] : \A i \in 1 .. n : Vec(w)[s[i]] # 0}

\* np.random.choice(indices, size=n, replace=False, p=w/np.sum(w)): an ordered
\* draw of n pairwise distinct indices, each of non-zero probability
\* (w[i]/sum(w) is non-zero exactly when w[i] is).
Samples(w, n) ==
    {s \in [1 .. n -> DOMAIN Vec(w)] :
        /\ \A i \in 1 .. n : Vec(w)[s[i]] # 0
        /\ \A i, j \in 1 .. n : i # j => s[i] # s[j]}

\* MkTrial associating every sampled cue with every sampled position.
MkTrialCross(cues_idx, pos_idx, r, block) ==
    [cog |-> [c \in Slots |-> IF \E i \in DOMAIN cues_idx : cues_idx[i] = c
                              THEN 1 ELSE 0],
     mot |-> [p \in Slots |-> IF \E i \in DOMAIN pos_idx : pos_idx[i] = p
                              THEN 1 ELSE 0],
     ass |-> [cp \in Slots \X Slots |->
                 IF \E i, j \in DOMAIN cues_idx :
                        cues_idx[i] = cp[1] /\ pos_idx[j] = cp[2]
                 THEN 1 ELSE 0],
     rwd |-> Vec(block.rwd),
     rnd |-> r]

\* The trial built from one draw of cue indices, position indices and rnd.
MkTrial(cues_idx, pos_idx, r, block) ==
    [cog |-> [c \in Slots |-> IF \E i \in DOMAIN cues_idx : cues_idx[i] = c
                              THEN 1 ELSE 0],
     mot |-> [p \in Slots |-> IF \E i \in DOMAIN pos_idx : pos_idx[i] = p
                              THEN 1 ELSE 0],
     ass |-> [cp \in Slots \X Slots |->
                 IF \E i \in DOMAIN cues_idx :
                        cues_idx[i] = cp[1] /\ pos_idx[i] = cp[2]
                 THEN 1 ELSE 0],
     rwd |-> Vec(block.rwd),
     rnd |-> r]

\* Every trial one pass of the inner loop of setup can build for a block.
BlockTrials(block) ==
    {MkTrial(c, p, r, block) :
        c \in Samples(block.cue, NCues(block)),
        p \in Samples(block.pos, NCues(block)),
        r \in RndValues}

\* The trial sequences the loops of setup can build for trials 0 .. i-1,
\* block after block, as 1-based sequences.
RECURSIVE Built(_)
Built(i) ==
    IF i = 0 THEN {<< >>}
    ELSE {Append(s, t) : s \in Built(i - 1),
                         t \in BlockTrials(sessionBlocks[BlockOf(i - 1)])}

\* Every value setup can leave in self.trials.
SetupTrials == {[i \in TrialIdx |-> s[i + 1]] : s \in Built(NTrials)}

\* One zero-filled row of self.records (np.zeros).
ZeroRecord == [choice |-> 0, cue |-> 0, best |-> 0, valid |-> 0, RT |-> 0, reward |-> 0]

\* self.records as allocated by setup.
SetupRecords == [i \in TrialIdx |-> ZeroRecord]

\* A bool stored into a float field.
Float(b) == IF b THEN 1 ELSE 0

\* The value of `last` for a call that is not process.
Call(op, raised, arg) ==
    [op |-> op, raised |-> raised, arg |-> arg, choice |-> 0, RT |-> 0,
     reward |-> 0, cue |-> 0, best |-> 0, valid |-> 0]

NoScope == [kind |-> "none", k |-> 0]

\* Task(): the cursor fields are None and setup has run once.
Start(file) ==
    /\ parameters = file
    /\ trials \in SetupTrials
    /\ records = SetupRecords
    /\ index = None
    /\ index_start = None
    /\ index_stop = None
    /\ last = Call("init", "none", 0)
    /\ yielded = << >>
    /\ scope = NoScope
    /\ prevPass = << >>

Init == Start(TaskFile(1, 1))

\* block starting the cursor on the block's first trial instead of before it.
blockFromStart(k) ==
    /\ index_start' = blocks[k][1]
    /\ index_stop' = blocks[k][2]
    /\ index' = blocks[k][1]
    /\ last' = Call("block", "none", k)
    /\ UNCHANGED <<parameters, trials, records>>

\* task.block(k)
block(k) ==
    /\ index_start' = blocks[k][1] - 1
    /\ index_stop' = blocks[k][2]
    /\ index' = blocks[k][1] - 1
    /\ last' = Call("block", "none", k)
    /\ UNCHANGED <<parameters, trials, records>>

\* iterSetup starting the cursor on the first trial instead of before it.
iterSetupFromZero ==
    /\ index_start = None
    /\ trials' \in SetupTrials
    /\ records' = SetupRecords
    /\ UNCHANGED parameters
    /\ index_start' = 0
    /\ index_stop' = NTrials
    /\ index' = 0
    /\ last' = Call("iter", "none", 1)

\* iter(task) on a cursor that is not started: setup runs again.
iterSetup ==
    /\ index_start = None
    /\ trials' \in SetupTrials
    /\ records' = SetupRecords
    /\ UNCHANGED parameters
    /\ index_start' = -1
    /\ index_stop' = NTrials
    /\ index' = -1
    /\ last' = Call("iter", "none", 1)

\* iterKeep allocating the records again.
iterKeepRealloc ==
    /\ index_start # None
    /\ records' = SetupRecords
    /\ last' = Call("iter", "none", 0)
    /\ UNCHANGED <<parameters, trials, index, index_start, index_stop>>

\* iter(task) on a started cursor: nothing changes.
iterKeep ==
    /\ index_start # None
    /\ last' = Call("iter", "none", 0)
    /\ UNCHANGED <<parameters, trials, records, index, index_start, index_stop>>

\* next(task) returning self.trials[self.index].
nextTrial ==
    /\ index # None
    /\ index + 1 < index_stop
    /\ index' = index + 1
    /\ last' = Call("next", "none", index + 1)
    /\ UNCHANGED <<parameters, trials, records, index_start, index_stop>>

\* next(task) at the end of the range: the cursor is reset and StopIteration raised.
nextStop ==
    /\ index # None
    /\ ~(index + 1 < index_stop)
    /\ index' = None
    /\ index_start' = None
    /\ index_stop' = None
    /\ last' = Call("next", "StopIteration", 0)
    /\ UNCHANGED <<parameters, trials, records>>

\* next(task) with self.index = None: `self.index += 1` raises TypeError.
nextNone ==
    /\ index = None
    /\ last' = Call("next", "TypeError", 0)
    /\ UNCHANGED <<parameters, trials, records, index, index_start, index_stop>>

\* __iter__
iter == iterSetup \/ iterKeep

\* __next__
next == nextTrial \/ nextStop \/ nextNone

\* valid = (trial["mot"][choice] == 1.0)
Valid(trial, choice) == trial.mot[choice] = 1

\* cues = np.nonzero(trial["ass"][:,choice])[0]
Cues(trial, choice) == {c \in Slots : trial.ass[<<c, choice>>] # 0}

\* present_rwd without the cog factor.
AllRwd(trial) == [c \in Slots |-> trial.rwd[c]]

\* present_rwd = trial["cog"]*trial["rwd"]
PresentRwd(trial) == [c \in Slots |-> trial.cog[c] * trial.rwd[c]]

\* max(present_rwd)
Max(f) == CHOOSE m \in {f[i] : i \in DOMAIN f} : \A i \in DOMAIN f : f[i] <= m

\* best = max(present_rwd) == present_rwd[cue]
Best(trial, cue) == Max(PresentRwd(trial)) = PresentRwd(trial)[cue]

\* reward with an inclusive comparison.
RewardInclusive(trial, cue) == trial.rnd <= trial.rwd[cue]

\* reward = trial["rnd"] < trial["rwd"][cue]
Reward(trial, cue) == trial.rnd < trial.rwd[cue]

\* The rows that self.records[i] addresses: numpy reads None as a new axis
\* over the whole array, and a negative index counts from the end.
CursorSlots(i) ==
    IF i = None THEN TrialIdx
    ELSE IF i < 0 THEN {NTrials + i}
    ELSE {i}

\* self.records[self.index][field] = value, for each field of the row.
Record(recs, i, row) == [j \in TrialIdx |-> IF j \in CursorSlots(i) THEN row ELSE recs[j]]

\* The outcome of process when it returns.
Outcome(t, choice, RT, reward, cue, best, valid) ==
    [op |-> "process", raised |-> "none", arg |-> t, choice |-> choice, RT |-> RT,
     reward |-> reward, cue |-> cue, best |-> best, valid |-> valid]

\* The row process writes for an outcome.
Row(o) ==
    [choice |-> o.choice, cue |-> o.cue, best |-> o.best, valid |-> o.valid,
     RT |-> o.RT, reward |-> o.reward]

\* processNoChoice drawing the reward from rwd[choice], which Python reads
\* from the end of the array for a negative choice.
processNoChoiceDraws(t, choice, RT) ==
    /\ choice < 0
    /\ last' = Outcome(t, choice, RT, Float(trials[t].rnd < trials[t].rwd[NSlots + choice]),
                       -1, Float(FALSE), Float(FALSE))
    /\ records' = Record(records, index, Row(last'))
    /\ UNCHANGED <<parameters, trials, index, index_start, index_stop>>

\* process(trial, choice, RT) with choice < 0.
processNoChoice(t, choice, RT) ==
    /\ choice < 0
    /\ last' = Outcome(t, choice, RT, 0, -1, Float(FALSE), Float(FALSE))
    /\ records' = Record(records, index, Row(last'))
    /\ UNCHANGED <<parameters, trials, index, index_start, index_stop>>

\* process(trial, choice, RT) with choice >= 0 and exactly one associated cue.
processChoice(t, choice, RT) ==
    /\ choice \in Slots
    /\ Cardinality(Cues(trials[t], choice)) = 1
    /\ LET trial == trials[t]
           cue == CHOOSE c \in Cues(trial, choice) : TRUE
       IN  last' = Outcome(t, choice, RT, Float(Reward(trial, cue)), cue,
                           Float(Best(trial, cue)), Float(Valid(trial, choice)))
    /\ records' = Record(records, index, Row(last'))
    /\ UNCHANGED <<parameters, trials, index, index_start, index_stop>>

\* process(trial, choice, RT) with choice >= 0 failing assert(len(cues) == 1):
\* nothing is recorded.
processAssert(t, choice, RT) ==
    /\ choice \in Slots
    /\ Cardinality(Cues(trials[t], choice)) # 1
    /\ last' = [Call("process", "AssertionError", t) EXCEPT !.choice = choice, !.RT = RT]
    /\ UNCHANGED <<parameters, trials, records, index, index_start, index_stop>>

\* process(trial, choice, RT) with choice past the last position:
\* trial["mot"][choice] raises IndexError, nothing is recorded.
processIndexError(t, choice, RT) ==
    /\ choice >= NSlots
    /\ last' = [Call("process", "IndexError", t) EXCEPT !.choice = choice, !.RT = RT]
    /\ UNCHANGED <<parameters, trials, records, index, index_start, index_stop>>

\* task.process(task[t], choice, RT) with model=None and debug=False: the
\* model snapshots are not recorded, and debug only prints.
process(t, choice, RT) ==
    \/ processNoChoice(t, choice, RT)
    \/ processChoice(t, choice, RT)
    \/ processAssert(t, choice, RT)
    \/ processIndexError(t, choice, RT)

\* The choices tried: no choice (-1) and the position indices up to MaxChoice.
Choices == -1 .. MaxChoice

\* The observers of the iteration: they change nothing the program reads.
obs == <<yielded, scope, prevPass>>

Next ==
    /\ \/ iter
       \/ next
       \/ \E k \in 0 .. NBlocks - 1 : block(k)
       \/ \E t \in TrialIdx, choice \in Choices, RT \in RTs : process(t, choice, RT)
    /\ UNCHANGED obs

Spec == Init /\ [][Next]_vars

\* What the observers see of a call: block and a fresh __iter__ begin an
\* iteration, a returning __next__ adds the trial it returned, and a fresh
\* __iter__ that follows a complete pass over the whole task keeps that pass.
Observe ==
    /\ yielded' = CASE last'.op = "block" -> << >>
                    [] last'.op = "iter" /\ last'.arg = 1 -> << >>
                    [] last'.op = "next" /\ last'.raised = "none" ->
                           Append(yielded, trials[last'.arg])
                    [] OTHER -> yielded
    /\ scope' = CASE last'.op = "block" -> [kind |-> "block", k |-> last'.arg]
                  [] last'.op = "iter" /\ last'.arg = 1 -> [kind |-> "full", k |-> 0]
                  [] OTHER -> scope
    /\ prevPass' = IF last'.op = "iter" /\ last'.arg = 1 /\ scope.kind = "full"
                   THEN yielded ELSE prevPass

InitIter == Start(TaskFile(1, 2))

NextIter ==
    /\ \/ iter
       \/ next
       \/ \E k \in 0 .. NBlocks - 1 : block(k)
    /\ Observe

\* The iteration protocol alone, observed, on a task whose second block has
\* two trials.
SpecIter == InitIter /\ [][NextIter]_vars

(***************************************************************************)
(* Properties of the trials built by setup.                                *)
(***************************************************************************)

\* The cells of ass holding a one.
Ones(trial) == {cp \in Slots \X Slots : trial.ass[cp] = 1}

\* The indices set in a 0/1 vector.
SetIn(v) == {i \in DOMAIN v : v[i] = 1}

Chose == last.op = "process" /\ last.raised = "none" /\ last.choice >= 0

\* C2 as claimed: a process call whose choice >= 0 names a position not in
\* play in the trial returns, yields valid = false and records it at the cursor.
C2_InvalidChoiceRecorded ==
    (/\ last.op = "process"
     /\ last.choice \in Slots
     /\ trials[last.arg].mot[last.choice] = 0)
    => /\ last.raised = "none"
       /\ last.valid = 0
       /\ \A j \in CursorSlots(index) : records[j].valid = 0

\* C7: process with choice = -1 returns, whatever the trial, with reward 0,
\* best false, cue -1 and valid false, and the row at the cursor holds them.
C7_NoChoice ==
    (last.op = "process" /\ last.choice = -1)
    => /\ last.raised = "none"
       /\ last.reward = 0
       /\ last.best = 0
       /\ last.cue = -1
       /\ last.valid = 0
       /\ \A j \in CursorSlots(index) :
              records[j] = [choice |-> -1, cue |-> -1, best |-> 0, valid |-> 0,
                            RT |-> last.RT, reward |-> 0]

\* C7 witness: process has been called with no choice on a trial whose last
\* cue slot carries the largest reward probability, during an iteration.
C7_Witness ==
    /\ last.op = "process"
    /\ last.choice = -1
    /\ index \in TrialIdx
    /\ trials[last.arg].rwd[NSlots - 1] = 100
    /\ trials[last.arg].rnd = 0

\* C8: for a choice associated with cue c, reward is true exactly when the
\* stored rnd is strictly below rwd[c], and a second call with the same trial
\* and choice yields the same reward.
C8_Reward ==
    /\ [](Chose =>
            /\ trials[last.arg].ass[<<last.cue, last.choice>>] = 1
            /\ last.reward \in {0, 1}
            /\ last.reward = 1 <=> trials[last.arg].rnd < trials[last.arg].rwd[last.cue])
    /\ [][(/\ Chose
           /\ Chose'
           /\ last'.arg = last.arg
           /\ last'.choice = last.choice) => last'.reward = last.reward]_vars

\* C8 witness: process has returned 0 for a cue whose reward probability
\* equals the stored rnd, and the row at the cursor holds it.
C8_Witness ==
    /\ Chose
    /\ trials[last.arg].rnd = trials[last.arg].rwd[last.cue]
    /\ trials[last.arg].rnd > 0
    /\ index \in TrialIdx
    /\ records[index].reward = 0
    /\ records[index].choice = last.choice

\* C9: for a choice associated with cue c, c is present and best is true
\* exactly when no present cue has a reward probability above rwd[c].
C9_Best ==
    Chose =>
        LET trial == trials[last.arg]
            present == SetIn(trial.cog)
        IN  /\ last.cue \in present
            /\ last.best \in {0, 1}
            /\ last.best = 1 <=> \A c \in present : trial.rwd[c] <= trial.rwd[last.cue]

\* C9 witness: the chosen cue is best while tied with another present cue,
\* and an absent cue has a larger reward probability.
C9_Witness ==
    /\ Chose
    /\ last.best = 1
    /\ \E c \in SetIn(trials[last.arg].cog) :
           c # last.cue /\ trials[last.arg].rwd[c] = trials[last.arg].rwd[last.cue]
    /\ \E c \in Slots :
           trials[last.arg].cog[c] = 0 /\ trials[last.arg].rwd[c] > trials[last.arg].rwd[last.cue]

(***************************************************************************)
(* Properties of the records.                                              *)
(***************************************************************************)

\* The step is a process call that returned.
Processed == last'.op = "process" /\ last'.raised = "none"

\* A written row differs from the zero row: cue is -1 for no choice, and a
\* choice that passes the assertion is recorded with valid = 1.
Written(j) == records[j] # ZeroRecord

\* C3 as claimed: a written row is never changed again, by process or by any
\* other call, no row is written a second time, and rows are written in
\* increasing trial order. Process calls on a cursor that is None are left
\* out: what they write is the subject of C4.
C3_WrittenOnceInOrder ==
    [][~(Processed /\ index = None) =>
          \A j \in TrialIdx :
              /\ Written(j) => /\ records'[j] = records[j]
                               /\ ~(Processed /\ j \in CursorSlots(index))
              /\ (Processed /\ j \in CursorSlots(index))
                     => \A m \in TrialIdx : m > j => ~Written(m)]_vars

\* C3 amended: records changes only in a __iter__ call that re-runs setup,
\* which leaves it zero-filled, and in a returning process call, which writes
\* its row to the rows the cursor addresses (overwriting them) and keeps
\* every other row.
C3_RecordsLifecycle ==
    [][records' # records =>
          \/ /\ last'.op = "iter"
             /\ last'.arg = 1
             /\ index_start = None
             /\ records' = [j \in TrialIdx |-> ZeroRecord]
          \/ /\ Processed
             /\ \A j \in TrialIdx :
                    records'[j] = IF \/ index = None
                                     \/ index = -1 /\ j = NTrials - 1
                                     \/ index = j
                                  THEN Row(last') ELSE records[j]]_vars

\* C3 witness: during an iteration process has overwritten the row at the
\* cursor while an earlier row keeps what was written to it.
C3_Witness ==
    /\ last.op = "process"
    /\ last.raised = "none"
    /\ index = 1
    /\ records[1] = Row(last)
    /\ Written(0)
    /\ records[0] # records[1]

\* C4 as claimed: a returning process call changes no row but the one at the
\* cursor index, whatever the cursor state, and leaves the trials and the
\* cursor fields unchanged.
C4_OneSlot ==
    [][Processed =>
          /\ trials' = trials
          /\ <<index, index_start, index_stop>>' = <<index, index_start, index_stop>>
          /\ \E i \in TrialIdx :
                 /\ index \in TrialIdx => i = index
                 /\ \A j \in TrialIdx \ {i} : records'[j] = records[j]]_vars

(***************************************************************************)
(* Properties of the iteration, under SpecIter.                            *)
(***************************************************************************)

\* __next__ has just raised StopIteration: the iteration is over.
Done == last.op = "next" /\ last.raised = "StopIteration"

\* A second complete pass over the whole task has just ended.
SecondPass == Done /\ scope.kind = "full" /\ prevPass # << >>

\* C1 as claimed: the second full pass yields the trials of the first pass,
\* field for field and in the same order.
C1_SameTrials == SecondPass => yielded = prevPass

\* C1 amended: the second full pass yields as many trials as the first, the
\* whole of self.trials in index order, and the i-th trial of either pass is
\* one that setup builds from the block owning index i, with that block's rwd.
C1_SameShape ==
    SecondPass =>
        /\ Len(yielded) = Len(prevPass)
        /\ Len(yielded) = parameters.A.n_trial + parameters.B.n_trial
        /\ \A i \in 1 .. Len(yielded) :
               /\ yielded[i] = trials[i - 1]
               /\ yielded[i] \in BlockTrials(sessionBlocks[BlockOf(i - 1)])
               /\ prevPass[i] \in BlockTrials(sessionBlocks[BlockOf(i - 1)])
               /\ yielded[i].rwd = prevPass[i].rwd

\* C1 witness: a second full pass has ended and its trials are not those of
\* the first pass.
C1_Witness == SecondPass /\ yielded # prevPass

\* C5: when the iteration begun by block(k) ends, it has returned exactly the
\* n_trial trials of block k, trials[start] .. trials[stop-1] in that order,
\* each one that setup builds from block k's configuration.
C5_BlockPass ==
    (Done /\ scope.kind = "block") =>
        LET blk == sessionBlocks[scope.k + 1]
            start == IF scope.k = 0 THEN 0 ELSE parameters.A.n_trial
        IN  /\ Len(yielded) = blk.n_trial
            /\ \A i \in 1 .. Len(yielded) :
                   /\ yielded[i] = trials[start + i - 1]
                   /\ yielded[i] \in BlockTrials(blk)
                   /\ yielded[i].rwd = Vec(blk.rwd)

\* C5 witness: the iteration over the first block has ended after one trial.
C5_Witness ==
    /\ Done
    /\ scope = [kind |-> "block", k |-> 0]
    /\ Len(yielded) = 1

====
